---- MODULE Spec2Model ----
(***************************************************************************)
(* Reconciliation of the secrets engines of a Vault server against the     *)
(* desired state (internal/vault/secrets_engines.go).                      *)
(*                                                                         *)
(* A Go string is modelled as a sequence of atoms.  The atom "/" is the    *)
(* path separator; every other atom stands for a non-empty run of          *)
(* characters that holds no separator.  Concatenation is \o, so            *)
(* fmt.Sprintf("%s/%s", a, b) is a \o <<"/">> \o b.                        *)
(***************************************************************************)
EXTENDS Integers, Sequences, FiniteSets, TLC

(***************************************************************************)
(* Bounds of the model.                                                    *)
(***************************************************************************)
MaxEngines == 2
MaxPasses == 2
MaxFailures == 1
MaxRetryFailures == 9
MaxForeverFailures == 16

(***************************************************************************)
(* Strings.                                                                *)
(***************************************************************************)
Sep == "/"

S(a) == <<a>>

Join(a, b) == a \o <<Sep>> \o b

RECURSIVE TrimLeft(_)
TrimLeft(s) ==
    IF s # <<>> /\ Head(s) = Sep THEN TrimLeft(Tail(s)) ELSE s

RECURSIVE TrimRight(_)
TrimRight(s) ==
    IF s # <<>> /\ s[Len(s)] = Sep THEN TrimRight(SubSeq(s, 1, Len(s) - 1)) ELSE s

Trim(s) == TrimRight(TrimLeft(s))

HasPrefix(s, p) == Len(p) <= Len(s) /\ SubSeq(s, 1, Len(p)) = p

Contains(s, t) ==
    \E i \in 1..(Len(s) - Len(t) + 1) : SubSeq(s, i, i + Len(t) - 1) = t

RECURSIVE ReplaceAll(_, _, _)
ReplaceAll(s, old, new) ==
    IF s = <<>> THEN <<>>
    ELSE IF old # <<>> /\ HasPrefix(s, old)
         THEN new \o ReplaceAll(SubSeq(s, Len(old) + 1, Len(s)), old, new)
         ELSE <<Head(s)>> \o ReplaceAll(Tail(s), old, new)

(***************************************************************************)
(* backoff.Backoff{Min: 500ms, Max: 60s, Factor: 2, Jitter: false}.        *)
(* Durations are in milliseconds.                                          *)
(***************************************************************************)
BackoffMin == 500
BackoffMax == 60000
BackoffFactor == 2

\* Min * Factor^n, the multiplication ending once the product is above Max
\* (ForAttempt returns Max for such a product, and for one that overflows).
RECURSIVE Scale(_, _)
Scale(dur, n) ==
    IF n = 0 \/ dur > BackoffMax THEN dur ELSE Scale(dur * BackoffFactor, n - 1)

\* Backoff.ForAttempt: Min * Factor^attempt, kept within [Min, Max].
ForAttempt(attempt) ==
    LET dur == Scale(BackoffMin, attempt)
    IN  IF dur < BackoffMin THEN BackoffMin
        ELSE IF dur > BackoffMax THEN BackoffMax
        ELSE dur

(***************************************************************************)
(* Pure helpers of secrets_engines.go.                                     *)
(***************************************************************************)
OverwriteProhibited == "delete them before reconfiguring"

\* isOverwriteProhibitedError recognizing no error.
NeverOverwriteProhibited(err) == FALSE

\* isOverwriteProhibitedError: the error text holds the conflict message.
isOverwriteProhibitedError(err) == err = OverwriteProhibited

secretEnginesWithoutNameConfig ==
    {S("ad"), S("alicloud"), S("azure"), S("gcp"), S("gcpkms"), S("kv")}

\* configNeedsNoName exempting every item.
ConfigNeedsNoNameAlways(secretEngineType, configOption) == TRUE

configNeedsNoName(secretEngineType, configOption) ==
    IF configOption = S("config")
    THEN secretEngineType \in secretEnginesWithoutNameConfig
    ELSE IF secretEngineType = S("aws") /\ configOption = Join(S("config"), S("root"))
    THEN TRUE
    ELSE IF secretEngineType = S("transit") /\ configOption = S("cache-config")
    THEN TRUE
    ELSE FALSE

\* One element of initSecretsEnginesConfig's loop.
NormalizePath(config) ==
    Trim(IF config.Path = <<>> THEN config.Type ELSE config.Path)

initSecretsEnginesConfig(configs) ==
    [index \in 1..Len(configs) |->
        [configs[index] EXCEPT !.Path = NormalizePath(configs[index])]]

\* The accessor token of a mount key: "__accessor__" + TrimRight(k, "/").
AccessorToken(k) == <<"__accessor__">> \o TrimRight(k)

\* replaceAccessor ranges over a Go map, whose order is unspecified: the
\* result is the replacement for any one key whose token the input holds.
replaceAccessor(input, mounts) ==
    LET hits == {k \in DOMAIN mounts : Contains(input, AccessorToken(k))}
    IN  IF hits = {} THEN {input}
        ELSE {ReplaceAll(input, AccessorToken(k), mounts[k]) : k \in hits}

(***************************************************************************)
(* Maps with string keys (map[string]interface{}) are records.             *)
(***************************************************************************)
Without(m, ks) == [x \in (DOMAIN m) \ ks |-> m[x]]

With(m, k, v) == [x \in (DOMAIN m) \cup {k} |-> IF x = k THEN v ELSE m[x]]

\* cast.ToBool(m[k]): a missing key is false.
CastToBool(m, k) == IF k \in DOMAIN m THEN m[k] ELSE FALSE

\* cast.ToString(m[k]): a missing key is the empty string.
CastToString(m, k) == IF k \in DOMAIN m THEN m[k] ELSE <<>>

(***************************************************************************)
(* The desired state the model draws from.  An engine is a secretEngine    *)
(* (Path, Type, Configuration); Configuration maps a config option to its  *)
(* list of items; an item is a map.                                        *)
(***************************************************************************)
ConfigRoot == Join(S("config"), S("root"))
RootGenerate == Join(S("root"), S("generate"))

AwsEngine ==
    [Path |-> <<>>, Type |-> S("aws"),
     Configuration |->
        (ConfigRoot :> << [rotate |-> TRUE, access_key |-> S("AKIA")] >>)
     @@ (S("roles") :> << [name |-> S("r1"), save_to |-> Join(S("secret"), S("r1")),
                           allowed_domains |-> [list |-> << <<"__accessor__", "git", ".example.com">> >>]] >>)]

DbEngine ==
    [Path |-> <<Sep, "db", Sep>>, Type |-> S("database"),
     Configuration |->
        (S("config") :> << [name |-> S("pg"), rotate |-> TRUE, create_only |-> TRUE] >>)]

KvEngine ==
    [Path |-> <<"kv", Sep>>, Type |-> S("kv"),
     Configuration |->
        (S("config") :> << [create_only |-> TRUE, max_versions |-> S("5")] >>)]

\* A kv engine whose path is made of a separator only.
SlashPathEngine == [KvEngine EXCEPT !.Path = <<Sep>>]

\* A kv engine with no path, whose type carries separators on both sides.
SlashTypeEngine == [KvEngine EXCEPT !.Path = <<>>, !.Type = <<Sep, "kv", Sep>>]

\* A gcp engine: a config item and a roleset, both with rotate.
GcpEngine ==
    [Path |-> S("gcp"), Type |-> S("gcp"),
     Configuration |->
        (S("config") :> << [rotate |-> TRUE, ttl |-> S("1h")] >>)
     @@ (S("roleset") :> << [name |-> S("rs"), rotate |-> TRUE, project |-> S("p1")] >>)]

EngineTemplates == {AwsEngine, DbEngine}

\* A pki engine: a root/generate item whose result is saved, a role whose
\* allowed_domains is a list holding the string domain, and a role whose
\* allowed_domains is one string, which does not decode into
\* secretEngineTemplatedConfig.
PkiEngine(domain) ==
    [Path |-> S("pki"), Type |-> S("pki"),
     Configuration |->
        (RootGenerate :> << [name |-> S("internal"), create_only |-> TRUE,
                             save_to |-> Join(S("secret"), S("ca")),
                             common_name |-> S("example.com")] >>)
     @@ (S("roles") :> << [name |-> S("web"), create_only |-> TRUE,
                           save_to |-> Join(S("secret"), S("web")),
                           allowed_domains |-> [list |-> <<domain>>]],
                          [name |-> S("api"), rotate |-> TRUE,
                           save_to |-> Join(S("secret"), S("api")),
                           allowed_domains |-> [str |-> S("a.com,b.com")]] >>)]

\* A transit engine: cache-config needs no name; the first item of keys has
\* none.
TransitEngine ==
    [Path |-> S("transit"), Type |-> S("transit"),
     Configuration |->
        (S("cache-config") :> << [size |-> S("500")] >>)
     @@ (S("keys") :> << [type |-> S("aes256-gcm96"), create_only |-> TRUE],
                         [name |-> S("k2")] >>)]

\* The allowed_domains strings: without a token, with the token of one auth
\* mount, of an auth mount whose path another's is a prefix of, of a path
\* that is no auth mount, and with the tokens of two auth mounts.
DomainStrings ==
    {<<"example.com">>,
     <<"__accessor__", "ldap", ".example.com">>,
     <<"__accessor__", "git", "hub", ".example.com">>,
     <<"__accessor__", "okta", ".example.com">>,
     <<"__accessor__", "ldap", ".", "__accessor__", "ldap">>,
     <<"__accessor__", "git", ".", "__accessor__", "ldap">>}

RECURSIVE SeqsUpTo(_, _)
SeqsUpTo(T, n) ==
    IF n = 0 THEN {<<>>}
    ELSE LET shorter == SeqsUpTo(T, n - 1)
         IN  shorter \cup {Append(s, t) : s \in {x \in shorter : Len(x) = n - 1}, t \in T}

\* The mounts a Vault server always has.
SystemMounts == {<<"sys", Sep>>, <<"identity", Sep>>, <<"cubbyhole", Sep>>}

OldMount == <<"old-kv", Sep>>

\* The auth methods ListAuth returns: mount key -> accessor.
AuthMounts ==
    (<<"git", "hub", Sep>> :> S("acc-123")) @@ (<<"git", Sep>> :> S("acc-9"))
    @@ (<<"ldap", Sep>> :> S("acc-7"))

\* The key of a path in the listing of ListMounts.
MountKey(path) == path \o <<Sep>>

\* The paths a pass probes for an engine: the targets of its items.
ItemPath(e, opt, k) ==
    LET item == e.Configuration[opt][k]
        path == NormalizePath(e)
    IN  IF "name" \in DOMAIN item THEN Join(Join(path, opt), item.name)
        ELSE Join(path, opt)

\* What the existence checks of the items of an engine that carry create_only
\* or rotate read: the target of the item, or the CA for root/generate.
ItemPaths(e) ==
    UNION {{IF opt = RootGenerate THEN Join(NormalizePath(e), S("ca"))
                                     ELSE ItemPath(e, opt, k) :
              k \in {j \in 1..Len(e.Configuration[opt]) :
                \/ CastToBool(e.Configuration[opt][j], "create_only")
                \/ CastToBool(e.Configuration[opt][j], "rotate")}} :
              opt \in DOMAIN e.Configuration}

VARIABLES
    secrets,      \* v.externalConfig.Secrets
    purge,        \* v.externalConfig.PurgeUnmanagedConfig
    mounts,       \* the server: keys of the mounts listing
    data,         \* the server: paths a Read returns data for
    rotateCache,  \* v.rotateCache
    pc,           \* position of the pass: idle, engine, mount, tune, config, remove
    idx,          \* index of the engine being processed
    mountExists,  \* mountExists of the engine being processed
    attempt,      \* the attempt counter of the backoff b
    optsLeft,     \* config options of the engine not yet ranged over
    curOpt,       \* config option being ranged over (<<>>: none)
    itemIdx,      \* index of the last item processed in curOpt
    unmanaged,    \* unmanagedSecretsEngines still to be removed
    calls,        \* remote calls and sleeps of the current pass, in order
    results,      \* what each finished pass returned
    passNo,       \* number of passes started
    mounts0,      \* the server's mounts when the current pass started
    failed,       \* number of calls the server has failed
    faulty        \* the calls the server may fail, how many in all, and the
                  \* number of passes the caller makes

vars == <<secrets, purge, mounts, data, rotateCache, pc, idx, mountExists, attempt,
          optsLeft, curOpt, itemIdx, unmanaged, calls, results, passNo, mounts0, failed,
          faulty>>

(***************************************************************************)
(* Initial states: a desired state, a purge setting and a server.          *)
(***************************************************************************)
InitWith(desired, passes, failures, failing) ==
    /\ secrets \in desired
    /\ purge \in [Enabled : BOOLEAN, ExcludeSecrets : BOOLEAN]
    /\ \E X \in SUBSET ({OldMount} \cup
                        {MountKey(NormalizePath(secrets[i])) : i \in DOMAIN secrets}) :
          mounts = SystemMounts \cup X
    /\ data \in SUBSET UNION {ItemPaths(secrets[i]) :
                    i \in {j \in DOMAIN secrets : MountKey(NormalizePath(secrets[j])) \in mounts}}
    /\ rotateCache = {}
    /\ pc = "idle"
    /\ idx = 0
    /\ mountExists = FALSE
    /\ attempt = 0
    /\ optsLeft = {}
    /\ curOpt = <<>>
    /\ itemIdx = 0
    /\ unmanaged = {}
    /\ calls = <<>>
    /\ results = <<>>
    /\ passNo = 0
    /\ mounts0 = mounts
    /\ failed = 0
    /\ faulty = [ops |-> failing, max |-> failures, passes |-> passes]

RemoteCalls == {"ListAuth", "ListMounts", "Mount", "TuneMount", "Read", "Write", "Unmount"}

\* One pass over a desired state, the server failing some calls.
Init == InitWith(SeqsUpTo(EngineTemplates, MaxEngines), 1, MaxFailures, RemoteCalls)

(***************************************************************************)
(* The record of a remote call (or of a sleep, or of a logged skip).       *)
(***************************************************************************)
\* op: the call; eng: index of the engine it is made for (0: none); ok: whether
\* it succeeded; info: what a probe found, or the kind of a write, or the
\* reason of a skip; d: the duration of a sleep; listing: what a listing
\* returned; opt, item: the item it is made for; data: what a write sent;
\* err: the error a failed write returned.
Call(op, eng, path, ok, info) ==
    [op |-> op, eng |-> eng, path |-> path, ok |-> ok, info |-> info, d |-> 0,
     listing |-> {}, opt |-> <<>>, item |-> 0, data |-> <<>>, err |-> ""]

SleepCall(eng, path, d) == [Call("Sleep", eng, path, TRUE, "") EXCEPT !.d = d]

ListCall(eng, path, ok, listing) ==
    [Call("ListMounts", eng, path, ok, "") EXCEPT !.listing = IF ok THEN listing ELSE {}]

ItemCall(op, eng, opt, k, path, ok, info, dat) ==
    [Call(op, eng, path, ok, info) EXCEPT !.opt = opt, !.item = k, !.data = dat]

WriteCall(eng, opt, k, path, w, info, dat) ==
    [ItemCall("Write", eng, opt, k, path, w = "ok", info, dat)
        EXCEPT !.err = IF w = "ok" THEN "" ELSE w]

\* Whether the server may fail a call.
MayFail(op) == failed < faulty.max /\ op \in faulty.ops

\* The outcomes the server may give a call.
Outcomes(op) == IF MayFail(op) THEN {TRUE, FALSE} ELSE {TRUE}

WriteOutcomes == IF MayFail("Write") THEN {"ok", OverwriteProhibited, "error"} ELSE {"ok"}

\* A pass returns res to its caller.
Return(res, cs) ==
    /\ pc' = "idle"
    /\ results' = Append(results, res)
    /\ calls' = cs
    /\ idx' = 0
    /\ mountExists' = FALSE
    /\ attempt' = 0
    /\ optsLeft' = {}
    /\ curOpt' = <<>>
    /\ itemIdx' = 0
    /\ unmanaged' = {}

\* configureSecretsEngines going on to the pruning after an error of
\* addManagedSecretsEngines.
AddManagedFailedPrunes(res, cs) ==
    /\ pc' = "remove"
    /\ calls' = cs
    /\ idx' = 0
    /\ mountExists' = FALSE
    /\ attempt' = 0
    /\ optsLeft' = {}
    /\ curOpt' = <<>>
    /\ itemIdx' = 0
    /\ UNCHANGED <<results, unmanaged>>

\* addManagedSecretsEngines returned an error: configureSecretsEngines wraps
\* it and returns it.
AddManagedFailed(res, cs) == Return(res, cs)

(***************************************************************************)
(* Drift classification.                                                   *)
(***************************************************************************)
ReservedPaths == {S("sys"), S("identity"), S("cubbyhole")}

\* getExistingSecretsEngines: the listing's keys trimmed; nil on an error.
getExistingSecretsEngines(listOk, listing) ==
    IF listOk THEN {Trim(k) : k \in listing} ELSE {}

\* getUnmanagedSecretsEngines without the deletes of the system mounts.
KeepReserved(existing) == existing

\* getUnmanagedSecretsEngines without the deletes of the managed engines.
KeepManaged(existing, managedSecretsEngines) == existing

\* The deletions of getUnmanagedSecretsEngines.
DeleteReserved(existing) == existing \ ReservedPaths

DeleteManaged(existing, managedSecretsEngines) ==
    existing \ {managedSecretsEngines[i].Path : i \in DOMAIN managedSecretsEngines}

\* getUnmanagedSecretsEngines drops the error of the listing.
getUnmanagedSecretsEngines(managedSecretsEngines, listOk, listing) ==
    DeleteManaged(DeleteReserved(getExistingSecretsEngines(listOk, listing)),
                  managedSecretsEngines)

\* v.rotateCache of a new pass.
NewRotateCache == {}

\* configureSecretsEngines up to the call of addManagedSecretsEngines.
ConfigureSecretsEngines ==
    /\ pc = "idle"
    /\ passNo < faulty.passes
    /\ passNo' = passNo + 1
    /\ mounts0' = mounts
    /\ rotateCache' = NewRotateCache
    /\ UNCHANGED <<purge, mounts, data, faulty>>
    /\ \E authOk \in Outcomes("ListAuth") :
       \E listOk \in (IF authOk THEN Outcomes("ListMounts") ELSE {TRUE}) :
          LET auth == Call("ListAuth", 0, <<>>, authOk, "")
              list == ListCall(0, <<>>, listOk, mounts)
              managed == initSecretsEnginesConfig(secrets)
          IN  /\ failed' = failed + (IF authOk /\ listOk THEN 0 ELSE 1)
              /\ IF ~authOk
                 THEN /\ Return("ListAuth", <<auth>>)
                      /\ UNCHANGED secrets
                 ELSE /\ secrets' = managed
                      /\ unmanaged' = getUnmanagedSecretsEngines(managed, listOk, mounts)
                      /\ calls' = <<auth, list>>
                      /\ pc' = IF Len(managed) = 0 THEN "remove" ELSE "engine"
                      /\ idx' = IF Len(managed) = 0 THEN 0 ELSE 1
                      /\ UNCHANGED <<results, mountExists, attempt, optsLeft, curOpt, itemIdx>>

(***************************************************************************)
(* The position of addManagedSecretsEngines in its loops.                  *)
(***************************************************************************)
\* The items the range over Configuration may take next: the next item of
\* the current option, or the first item of any option not yet taken (the
\* order of a Go map is unspecified).
NextItems(e, left, cur, k) ==
    IF cur # <<>> /\ k < Len(e.Configuration[cur])
    THEN {<<cur, k + 1>>}
    ELSE {<<o, 1>> : o \in {x \in left : Len(e.Configuration[x]) > 0}}

\* The loop over the engines moves on.
EngineDone(i) ==
    /\ pc' = IF i < Len(secrets) THEN "engine" ELSE "remove"
    /\ idx' = IF i < Len(secrets) THEN i + 1 ELSE 0
    /\ mountExists' = FALSE
    /\ optsLeft' = {}
    /\ curOpt' = <<>>
    /\ itemIdx' = 0

\* The engine is mounted or tuned: its Configuration is ranged over.
StartConfig(i, existed) ==
    IF NextItems(secrets[i], DOMAIN secrets[i].Configuration, <<>>, 0) = {}
    THEN EngineDone(i)
    ELSE /\ pc' = "config"
         /\ idx' = i
         /\ mountExists' = existed
         /\ optsLeft' = DOMAIN secrets[i].Configuration
         /\ curOpt' = <<>>
         /\ itemIdx' = 0

(***************************************************************************)
(* mountExists, and the Mount and TuneMount retry loops.                   *)
(***************************************************************************)
\* mountExists looking the path up without its separator.
MountExistsNoSep(path, listing) == path \in listing

\* mountExists: mounts[path+"/"] != nil.
MountExistsIn(path, listing) == MountKey(path) \in listing

MountExists ==
    /\ pc = "engine"
    /\ UNCHANGED <<secrets, purge, mounts, data, rotateCache, passNo, mounts0, faulty>>
    /\ \E ok \in Outcomes("ListMounts") :
          LET path == secrets[idx].Path
              c == ListCall(idx, path, ok, mounts)
          IN  IF ~ok
              THEN /\ failed' = failed + 1
                   /\ AddManagedFailed("ListMounts", Append(calls, c))
              ELSE /\ mountExists' = MountExistsIn(path, mounts)
                   /\ pc' = IF MountExistsIn(path, mounts) THEN "tune" ELSE "mount"
                   /\ calls' = Append(calls, c)
                   /\ UNCHANGED <<failed, idx, attempt, optsLeft, curOpt, itemIdx, results,
                                  unmanaged>>

\* MountBackoff giving up when the next wait would be the ceiling.
MountBackoffEarly(n) ==
    [wait |-> ForAttempt(n), stop |-> ForAttempt(n + 1) = BackoffMax, next |-> n + 1]

\* The mount loop on a failure: d := b.Duration(); give up if d == b.Max;
\* else sleep d.
MountBackoff(n) ==
    [wait |-> ForAttempt(n), stop |-> ForAttempt(n) = BackoffMax, next |-> n + 1]

\* TuneBackoff never giving up.
TuneBackoffForever(n) == [wait |-> ForAttempt(n + 2), stop |-> FALSE, next |-> n + 3]

\* The tune loop on a failure: b.Duration() is called for the log message,
\* again for the comparison with b.Max and again for the sleep.
TuneBackoff(n) ==
    [wait |-> ForAttempt(n + 2), stop |-> ForAttempt(n + 1) = BackoffMax, next |-> n + 3]

\* One attempt of a retry loop.
Retry(op, backoff, existed, mounted) ==
    /\ UNCHANGED <<secrets, purge, data, rotateCache, passNo, mounts0, faulty>>
    /\ \E ok \in Outcomes(op) :
          LET path == secrets[idx].Path
              c == Call(op, idx, path, ok, "")
          IN  IF ok
              THEN /\ mounts' = mounts \cup {MountKey(p) : p \in mounted}
                   /\ attempt' = 0
                   /\ calls' = Append(calls, c)
                   /\ StartConfig(idx, existed)
                   /\ UNCHANGED <<failed, results, unmanaged>>
              ELSE /\ failed' = failed + 1
                   /\ UNCHANGED mounts
                   /\ IF backoff.stop
                      THEN AddManagedFailed(op, Append(calls, c))
                      ELSE /\ calls' = calls \o <<c, SleepCall(idx, path, backoff.wait)>>
                           /\ attempt' = backoff.next
                           /\ UNCHANGED <<pc, idx, mountExists, optsLeft, curOpt,
                                          itemIdx, results, unmanaged>>

Mount ==
    /\ pc = "mount"
    /\ Retry("Mount", MountBackoff(attempt), FALSE, {secrets[idx].Path})

TuneMount ==
    /\ pc = "tune"
    /\ Retry("TuneMount", TuneBackoff(attempt), TRUE, {})

(***************************************************************************)
(* One item of the Configuration of an engine.                             *)
(***************************************************************************)
\* mapstructure.Decode into secretEngineTemplatedConfig succeeds when
\* allowed_domains is missing or is a list of strings.
DecodesTemplated(raw) ==
    "allowed_domains" \notin DOMAIN raw \/ "list" \in DOMAIN raw.allowed_domains

\* pkiRole.AllowedDomains: empty when the item has none or does not decode.
AllowedDomains(raw) ==
    IF "allowed_domains" \in DOMAIN raw /\ DecodesTemplated(raw)
    THEN raw.allowed_domains.list
    ELSE <<>>

\* The lists replaceAccessor may make of a list of domains.
RECURSIVE TemplatedDomains(_, _)
TemplatedDomains(domains, auths) ==
    IF domains = <<>> THEN {<<>>}
    ELSE {<<h>> \o t : h \in replaceAccessor(Head(domains), auths),
                       t \in TemplatedDomains(Tail(domains), auths)}

\* subConfigData: pkiRole.Other with allowed_domains set to the templated
\* domains, or the raw item when it does not decode.
SubConfigData(raw, templated) ==
    IF DecodesTemplated(raw)
    THEN With(Without(raw, {"allowed_domains"}), "allowed_domains", [list |-> templated])
    ELSE raw

ControlKeys == {"create_only", "rotate", "save_to"}

\* subConfigData with create_only, rotate and save_to left in it.
KeepControl(sub) == sub

\* The deletes of create_only, rotate and save_to.
StripControl(sub) == Without(sub, ControlKeys)

ConfigPath(path, configOption, sub) ==
    IF "name" \in DOMAIN sub THEN Join(Join(path, configOption), sub.name)
    ELSE Join(path, configOption)

\* The existence check made whether or not the mount existed.
ProbesAlways(createOnly, rotate, existed) == createOnly \/ rotate

\* The existence check is made for create_only and rotate items of a mount
\* that existed.
Probes(createOnly, rotate, existed) == (createOnly \/ rotate) /\ existed

\* What the existence check reads: the CA of a pki mount for root/generate,
\* the config path otherwise.
ProbePath(path, configOption, configPath) ==
    IF configOption = RootGenerate THEN Join(path, S("ca")) ELSE configPath

\* shouldUpdate left true when the secret exists.
ShouldUpdateAlways(secretExists) == TRUE

ShouldUpdate(secretExists) == ~secretExists

\* The result saved whenever save_to is set.
SavesAnyway(w, saveTo) == saveTo # <<>>

\* The result of the write is saved when the write succeeded and save_to is
\* set.
Saves(w, saveTo) == w = "ok" /\ saveTo # <<>>

\* What a successful write makes readable on the server.
Stored(path, configOption, configPath) ==
    IF configOption = RootGenerate THEN {configPath, Join(path, S("ca"))} ELSE {configPath}

\* The rotation reached by every rotate item of a mount that existed.
RotatesAnyType(rotate, existed, type, configOption) == rotate /\ existed

\* The engines whose root credentials are rotated instead of reconfigured.
RotatesRoot(rotate, existed, type, configOption) ==
    /\ rotate
    /\ existed
    /\ \/ type = S("database") /\ configOption = S("config")
       \/ type = S("aws") /\ configOption = ConfigRoot

\* rotateSecretEngineCredentials: the rotation path of the engine type.
RotatePath(type, path, name) ==
    IF type = S("aws") THEN [ok |-> TRUE, path |-> Join(Join(path, S("config")), S("rotate-root"))]
    ELSE IF type = S("database") THEN [ok |-> TRUE, path |-> Join(Join(path, S("rotate-root")), name)]
    ELSE IF type = S("gcp") THEN [ok |-> TRUE, path |-> Join(Join(path, name), S("rotate"))]
    ELSE [ok |-> FALSE, path |-> <<>>]

\* rotateSecretEngineCredentials: the write is made unless the cache holds
\* the rotation path.
NeedsRotation(rotatePath, cache) == rotatePath \notin cache

\* rotateSecretEngineCredentials not recording the rotation.
NotRotated(rotatePath, cache) == cache

\* rotateSecretEngineCredentials: the cache after a successful write.
Rotated(rotatePath, cache) == cache \cup {rotatePath}

\* The body of the loop over the items, for item k of configOption of engine
\* i, given the outcomes the server gives the calls: pr the existence check,
\* w the write, sv the save_to write, rot the rotation write.  The result
\* holds the calls made (and the naming error, which is no call), the
\* server's data, the rotation cache, the error returned ("": none) and which
\* calls were made.
ItemRun(i, e, configOption, k, existed, templated, pr, w, sv, rot, dat, cache) ==
    LET raw == e.Configuration[configOption][k]
        sub0 == SubConfigData(raw, templated)
        hasName == "name" \in DOMAIN sub0
        namingError == ~hasName /\ ~configNeedsNoName(e.Type, configOption)
        nameCalls ==
            IF namingError
            THEN <<ItemCall("NameError", i, configOption, k, Join(e.Path, configOption),
                            FALSE, "name", <<>>)>>
            ELSE <<>>
        configPath == ConfigPath(e.Path, configOption, sub0)
        createOnly == CastToBool(sub0, "create_only")
        rotate == CastToBool(sub0, "rotate")
        saveTo == CastToString(sub0, "save_to")
        sub == StripControl(sub0)
        probing == ~namingError /\ Probes(createOnly, rotate, existed)
        probePath == ProbePath(e.Path, configOption, configPath)
        found == probePath \in dat
        secretExists == probing /\ pr /\ found
        probeCalls ==
            IF probing
            THEN <<ItemCall(IF configOption = RootGenerate THEN "GetCA" ELSE "Read",
                            i, configOption, k, probePath, pr,
                            IF pr /\ found THEN "exists" ELSE "absent", <<>>)>>
                 \o (IF secretExists
                     THEN <<ItemCall("Skip", i, configOption, k, configPath, TRUE,
                                     IF createOnly THEN "create_only" ELSE "rotate", <<>>)>>
                     ELSE <<>>)
            ELSE <<>>
        probeError == probing /\ ~pr
        writing == ~namingError /\ ~probeError /\ ShouldUpdate(secretExists)
        writeCalls ==
            IF writing
            THEN <<WriteCall(i, configOption, k, configPath, w, "config", sub)>>
            ELSE <<>>
        conflict == writing /\ isOverwriteProhibitedError(w)
        writeError == writing /\ w # "ok" /\ ~isOverwriteProhibitedError(w)
        dat1 == IF writing /\ w = "ok"
                THEN dat \cup Stored(e.Path, configOption, configPath) ELSE dat
        saving == writing /\ Saves(w, saveTo)
        saveCalls ==
            IF saving
            THEN <<ItemCall("Write", i, configOption, k, saveTo, sv, "save_to", <<>>)>>
            ELSE <<>>
        saveError == saving /\ ~sv
        dat2 == IF saving /\ sv THEN dat1 \cup {saveTo} ELSE dat1
        reachesRotation == ~namingError /\ ~probeError /\ ~conflict /\ ~writeError /\ ~saveError
        wantsRotation == reachesRotation /\ RotatesRoot(rotate, existed, e.Type, configOption)
        rp == RotatePath(e.Type, e.Path, IF hasName THEN sub0.name ELSE <<>>)
        unsupported == wantsRotation /\ ~rp.ok
        rotating == wantsRotation /\ rp.ok /\ NeedsRotation(rp.path, cache)
        rotateCalls ==
            IF rotating
            THEN <<ItemCall("Write", i, configOption, k, rp.path, rot, "rotate", <<>>)>>
            ELSE IF wantsRotation /\ rp.ok
            THEN <<ItemCall("Skip", i, configOption, k, rp.path, TRUE, "rotated previously", <<>>)>>
            ELSE <<>>
        rotateError == rotating /\ ~rot
    IN  [calls |-> nameCalls \o probeCalls \o writeCalls \o saveCalls \o rotateCalls,
         data |-> dat2,
         cache |-> IF rotating /\ rot THEN Rotated(rp.path, cache) ELSE cache,
         err |-> IF namingError THEN "name"
                 ELSE IF probeError THEN "probe"
                 ELSE IF writeError THEN "Write"
                 ELSE IF saveError THEN "save_to"
                 ELSE IF unsupported THEN "unsupported"
                 ELSE IF rotateError THEN "rotate"
                 ELSE "",
         probing |-> probing, writing |-> writing, saving |-> saving, rotating |-> rotating,
         failures |-> (IF probeError THEN 1 ELSE 0) + (IF writing /\ w # "ok" THEN 1 ELSE 0)
                      + (IF saveError THEN 1 ELSE 0) + (IF rotateError THEN 1 ELSE 0)]

ConfigureItem ==
    /\ pc = "config"
    /\ UNCHANGED <<secrets, purge, mounts, passNo, mounts0, faulty>>
    /\ \E next \in NextItems(secrets[idx], optsLeft, curOpt, itemIdx) :
       \E templated \in TemplatedDomains(AllowedDomains(secrets[idx].Configuration[next[1]][next[2]]),
                                         AuthMounts) :
       \E pr \in Outcomes("Read"), w \in WriteOutcomes, sv \in Outcomes("Write"),
          rot \in Outcomes("Write") :
          LET r == ItemRun(idx, secrets[idx], next[1], next[2], mountExists, templated,
                           pr, w, sv, rot, data, rotateCache)
              left == optsLeft \ {next[1]}
          IN  /\ ~r.probing => pr
              /\ ~r.writing => w = "ok"
              /\ ~r.saving => sv
              /\ ~r.rotating => rot
              /\ failed + r.failures <= faulty.max
              /\ failed' = failed + r.failures
              /\ data' = r.data
              /\ rotateCache' = r.cache
              /\ IF r.err # ""
                 THEN AddManagedFailed(r.err, calls \o r.calls)
                 ELSE /\ calls' = calls \o r.calls
                      /\ UNCHANGED <<results, unmanaged, attempt>>
                      /\ IF NextItems(secrets[idx], left, next[1], next[2]) = {}
                         THEN EngineDone(idx)
                         ELSE /\ optsLeft' = left
                              /\ curOpt' = next[1]
                              /\ itemIdx' = next[2]
                              /\ UNCHANGED <<pc, idx, mountExists>>

(***************************************************************************)
(* Pruning, and the return of configureSecretsEngines.                     *)
(***************************************************************************)
\* removeUnmanagedSecretsEngines returns at once.
PurgeOff(unmanagedSecretsEngines) ==
    \/ unmanagedSecretsEngines = {}
    \/ ~purge.Enabled
    \/ purge.ExcludeSecrets

\* What an unmount leaves of the server's data.
Unmounted(p, dat) == {x \in dat : ~HasPrefix(x, MountKey(p))}

RemoveUnmanagedSecretsEngines ==
    /\ pc = "remove"
    /\ UNCHANGED <<secrets, purge, rotateCache, passNo, mounts0, faulty>>
    /\ IF PurgeOff(unmanaged)
       THEN /\ Return("ok", calls)
            /\ UNCHANGED <<mounts, data, failed>>
       ELSE \E secretEnginePath \in unmanaged :
            \E ok \in Outcomes("Unmount") :
               LET c == Call("Unmount", 0, secretEnginePath, ok, "")
               IN  IF ~ok
                   THEN /\ failed' = failed + 1
                        /\ Return("Unmount", Append(calls, c))
                        /\ UNCHANGED <<mounts, data>>
                   ELSE /\ mounts' = mounts \ {MountKey(secretEnginePath)}
                        /\ data' = Unmounted(secretEnginePath, data)
                        /\ UNCHANGED failed
                        /\ IF unmanaged = {secretEnginePath}
                           THEN Return("ok", Append(calls, c))
                           ELSE /\ unmanaged' = unmanaged \ {secretEnginePath}
                                /\ calls' = Append(calls, c)
                                /\ UNCHANGED <<pc, idx, mountExists, attempt, optsLeft,
                                               curOpt, itemIdx, results>>

Next ==
    \/ ConfigureSecretsEngines
    \/ MountExists
    \/ Mount
    \/ TuneMount
    \/ ConfigureItem
    \/ RemoveUnmanagedSecretsEngines

Spec == Init /\ [][Next]_vars

\* One pass over fewer desired states, the server failing enough Mount and
\* TuneMount calls to exhaust a retry loop.
InitRetry ==
    InitWith({<<KvEngine>>, <<DbEngine, KvEngine>>, <<KvEngine, KvEngine>>}, 1,
             MaxRetryFailures, {"Mount", "TuneMount"})

SpecRetry == InitRetry /\ [][Next]_vars

\* Passes in succession over the same desired state, the server failing no
\* call.
InitTwice ==
    InitWith(SeqsUpTo(EngineTemplates \cup {KvEngine}, MaxEngines), MaxPasses, 0, {})

SpecTwice == InitTwice /\ [][Next]_vars

\* One pass over desired states whose items take every branch of the item
\* loop, the server failing some reads and writes.
InitItems ==
    InitWith({<<PkiEngine(d)>> : d \in DomainStrings}
                \cup {<<AwsEngine, TransitEngine>>, <<KvEngine, DbEngine>>},
             1, MaxFailures, {"Read", "Write"})

SpecItems == InitItems /\ [][Next]_vars

\* One pass against a server that may fail every Mount and every TuneMount
\* call: the failures allowed are more than a pass over two resources can
\* meet.  The server holds no item yet.  The pass is a sequential program
\* that takes its next step.
InitForever ==
    /\ InitWith({<<KvEngine>>, <<DbEngine, KvEngine>>}, 1,
                MaxForeverFailures, {"Mount", "TuneMount"})
    /\ data = {}

SpecForever == InitForever /\ [][Next]_vars /\ WF_vars(Next)

\* Passes in succession over desired states whose paths and types hold
\* separators, the server failing no call.
InitPaths ==
    InitWith({<<SlashPathEngine>>, <<SlashTypeEngine>>, <<KvEngine, SlashPathEngine>>,
              <<SlashTypeEngine, DbEngine>>}, MaxPasses, 0, {})

SpecPaths == InitPaths /\ [][Next]_vars

\* One pass over desired states whose items have rotate, for engine types
\* with and without a rotation of root credentials, the server failing some
\* writes.
InitRotate ==
    InitWith({<<GcpEngine>>, <<GcpEngine, DbEngine>>, <<DbEngine, AwsEngine>>,
              <<GcpEngine, DbEngine, AwsEngine>>}, 1, MaxFailures, {"Write"})

SpecRotate == InitRotate /\ [][Next]_vars

(***************************************************************************)
(* Properties of a pass, stated over the calls of the current pass.        *)
(***************************************************************************)
Idx == 1..Len(calls)

\* The pass has returned res.
Returned(res) == pc = "idle" /\ passNo > 0 /\ results[Len(results)] = res

\* The number of failed calls of op for engine e up to index j.
FailuresUpTo(op, e, j) ==
    Cardinality({i \in 1..j : calls[i].op = op /\ calls[i].eng = e /\ ~calls[i].ok})

\* The waits of the backoff before it reaches its ceiling.
BackoffWaits == <<500, 1000, 2000, 4000, 8000, 16000, 32000>>

\* A retry loop of op that follows the policy: its n-th failure is followed
\* by a sleep of the n-th wait, and the failure whose wait is the ceiling
\* ends the pass with the error.
FollowsPolicy(op) ==
    \A j \in Idx :
        (calls[j].op = op /\ ~calls[j].ok) =>
            LET n == FailuresUpTo(op, calls[j].eng, j)
            IN  IF n <= Len(BackoffWaits)
                THEN /\ j < Len(calls)
                     /\ calls[j + 1].op = "Sleep"
                     /\ calls[j + 1].d = BackoffWaits[n]
                ELSE /\ n = Len(BackoffWaits) + 1
                     /\ ForAttempt(n - 1) = BackoffMax
                     /\ j = Len(calls)
                     /\ Returned(op)

\* C1: a Mount that fails on every attempt sleeps 500ms, 1s, 2s, 4s, 8s, 16s
\* and 32s between the attempts, and the pass returns the mount error on the
\* first failure whose wait is the 60s ceiling (the eighth) and on none
\* before it.
C1_MountBackoffSequence == FollowsPolicy("Mount")

\* C1 witness: a pass has returned the mount error after the sleep of 32s.
C1_Witness ==
    /\ Returned("Mount")
    /\ \E j \in Idx : calls[j].op = "Sleep" /\ calls[j].d = 32000
    /\ calls[Len(calls)].op = "Mount" /\ FailuresUpTo("Mount", calls[Len(calls)].eng, Len(calls)) = 8

\* C2: the tune loop follows the same policy as the mount loop: the same
\* number of attempts and the same waits under the same failures.
C2_TuneSamePolicy == FollowsPolicy("TuneMount")

\* The first failure of a retry loop.
FirstFailure(j) ==
    /\ calls[j].op \in {"Mount", "TuneMount"}
    /\ ~calls[j].ok
    /\ FailuresUpTo(calls[j].op, calls[j].eng, j) = 1

\* C3: after a Mount or TuneMount that succeeded, the first wait slept by the
\* next operation that is retried is 500ms.
C3_FirstWaitAfterSuccess ==
    \A j \in Idx :
        (/\ FirstFailure(j)
         /\ \E i \in 1..(j - 1) : calls[i].op \in {"Mount", "TuneMount"} /\ calls[i].ok
         /\ j < Len(calls)
         /\ calls[j + 1].op = "Sleep")
        => calls[j + 1].d = 500

\* The listing has the path, whatever separators its key carries.
Listed(path, listing) == \E key \in listing : Trim(key) = path

\* The indexes of the calls of the ops for engine e.
CallsOf(ops, e) == {j \in Idx : calls[j].op \in ops /\ calls[j].eng = e}

\* C4: the listing taken when a resource is processed decides the branch:
\* path absent, only Mount is called for the resource; path present, only
\* TuneMount.  A Mount that succeeds after k failures is the (k+1)-th Mount
\* call for the path, and after it the pass makes no Mount or TuneMount call
\* for the resource and no Mount or Unmount call for the path.
C4_BranchAndAttempts ==
    \A l \in Idx :
        (calls[l].op = "ListMounts" /\ calls[l].eng > 0 /\ calls[l].ok) =>
            LET e == calls[l].eng
            IN  /\ Listed(calls[l].path, calls[l].listing) => CallsOf({"Mount"}, e) = {}
                /\ ~Listed(calls[l].path, calls[l].listing) => CallsOf({"TuneMount"}, e) = {}
                /\ \A j \in CallsOf({"Mount"}, e) :
                      calls[j].ok =>
                         /\ Cardinality(CallsOf({"Mount"}, e)) = FailuresUpTo("Mount", e, j) + 1
                         /\ \A i \in (j + 1)..Len(calls) :
                               /\ ~(calls[i].op \in {"Mount", "TuneMount"} /\ calls[i].eng = e)
                               /\ ~(calls[i].op \in {"Mount", "Unmount"}
                                     /\ calls[i].path = calls[j].path)

\* C4 witness: a pass returned without error in which a Mount failed twice
\* and then succeeded, and in which another resource was tuned.
C4_Witness ==
    /\ Returned("ok")
    /\ \E j \in Idx :
          /\ calls[j].op = "Mount" /\ calls[j].ok
          /\ FailuresUpTo("Mount", calls[j].eng, j) = 2
    /\ \E j \in Idx : calls[j].op = "TuneMount" /\ calls[j].ok

\* The item a call is made for.
ItemOf(c) == secrets[c.eng].Configuration[c.opt][c.item]

Flagged(item) == CastToBool(item, "create_only") \/ CastToBool(item, "rotate")

\* The call is a write to the config path of an item.
ConfigWrite(c) == c.op = "Write" /\ c.info = "config"

\* The current pass follows an earlier pass over the same desired state, and
\* the server has failed no call of any pass.
SecondPassNoFailure == passNo >= 2 /\ failed = 0

\* C5 as stated: the second of two passes over the same desired state, the
\* server failing no call, makes no Mount call and no write to the config
\* path of an item that has neither create_only nor rotate.
C5_SecondPassNoPlainWrite ==
    SecondPassNoFailure =>
        \A j \in Idx :
            /\ calls[j].op # "Mount"
            /\ ~(ConfigWrite(calls[j]) /\ ~Flagged(ItemOf(calls[j])))

\* C5 amended: the second of two passes over the same desired state, the
\* server failing no call, makes no Mount and no Unmount call and tunes every
\* desired resource once; it writes every item that has neither create_only
\* nor rotate to its config path again, once.
C5_SecondPassTunesAndRewrites ==
    SecondPassNoFailure =>
        /\ \A j \in Idx : calls[j].op \notin {"Mount", "Unmount"}
        /\ Returned("ok") =>
              \A e \in DOMAIN secrets :
                  /\ Cardinality(CallsOf({"TuneMount"}, e)) = 1
                  /\ \A opt \in DOMAIN secrets[e].Configuration :
                     \A k \in 1..Len(secrets[e].Configuration[opt]) :
                        ~Flagged(secrets[e].Configuration[opt][k]) =>
                            Cardinality({j \in CallsOf({"Write"}, e) :
                                            /\ calls[j].opt = opt
                                            /\ calls[j].item = k
                                            /\ calls[j].info = "config"
                                            /\ calls[j].path = ItemPath(secrets[e], opt, k)}) = 1

\* C5 witness: a second pass has returned without error after writing an item
\* without flags, the server having failed no call.
C5_Witness ==
    /\ SecondPassNoFailure
    /\ Returned("ok")
    /\ \E j \in Idx : ConfigWrite(calls[j]) /\ ~Flagged(ItemOf(calls[j]))
    /\ \E j \in Idx : calls[j].op = "TuneMount"

\* The existence check of this pass found the target of the item of call j.
FoundExisting(j) ==
    \E i \in 1..(j - 1) :
        /\ calls[i].op \in {"Read", "GetCA"}
        /\ calls[i].eng = calls[j].eng
        /\ calls[i].opt = calls[j].opt
        /\ calls[i].item = calls[j].item
        /\ calls[i].ok
        /\ calls[i].info = "exists"

\* C6 as stated: a second pass makes no write of any kind for an item that
\* has create_only or rotate and whose target exists.
C6_NoWriteForExisting ==
    passNo >= 2 =>
        \A j \in Idx :
            ~(calls[j].op = "Write" /\ Flagged(ItemOf(calls[j])) /\ FoundExisting(j))

\* C6 amended: for an item that has create_only or rotate and whose target
\* exists, a second pass makes no write to the config path and no save_to
\* write; the one write it may make is the rotation of the root credentials,
\* for an item with rotate of a database config or an aws config/root.
C6_OnlyRotationForExisting ==
    passNo >= 2 =>
        \A j \in Idx :
            (calls[j].op = "Write" /\ Flagged(ItemOf(calls[j])) /\ FoundExisting(j)) =>
                /\ calls[j].info = "rotate"
                /\ CastToBool(ItemOf(calls[j]), "rotate")
                /\ <<secrets[calls[j].eng].Type, calls[j].opt>>
                      \in {<<S("database"), S("config")>>, <<S("aws"), ConfigRoot>>}
                /\ \A i \in 1..(j - 1) : ~(calls[i].op = "Write" /\ calls[i].path = calls[j].path)

\* C6 witness: a second pass has found the target of a create_only item and
\* gone on without a write, and has rotated the credentials of a rotate item
\* whose target exists.
C6_Witness ==
    /\ passNo = 2
    /\ pc = "idle"
    /\ \E j \in Idx :
          /\ calls[j].op = "Skip" /\ calls[j].info = "create_only"
          /\ ~CastToBool(ItemOf(calls[j]), "rotate")
          /\ \A i \in Idx : ~(calls[i].op = "Write" /\ calls[i].eng = calls[j].eng)
    /\ \E j \in Idx : calls[j].op = "Write" /\ calls[j].info = "rotate" /\ FoundExisting(j)

\* The normalized paths of the desired resources.
DesiredPaths == {NormalizePath(secrets[i]) : i \in DOMAIN secrets}

\* C7: when a pass returns without error, the normalized path of every
\* desired resource is in the server's mount listing, whatever the server
\* had mounted before and whatever the purge setting.
C7_DesiredMountedAfterSuccess ==
    Returned("ok") => \A p \in DesiredPaths : Listed(p, mounts)

\* C7 witness: a pass with purge enabled has returned without error after
\* mounting one desired resource, tuning another and unmounting a path.
C7_Witness ==
    /\ Returned("ok")
    /\ purge.Enabled /\ ~purge.ExcludeSecrets
    /\ \E j \in Idx : calls[j].op = "Mount" /\ calls[j].ok
    /\ \E j \in Idx : calls[j].op = "TuneMount" /\ calls[j].ok
    /\ \E j \in Idx : calls[j].op = "Unmount" /\ calls[j].ok

\* The indexes of the rotation writes to a path.
RotationWrites(path) ==
    {j \in Idx : calls[j].op = "Write" /\ calls[j].info = "rotate" /\ calls[j].path = path}

\* C8: within one pass the rotation write to a rotation path is made once:
\* the first item to reach the rotation of the path makes the write, which
\* puts the path in the cache, and every later item with the same rotation
\* path makes none.
C8_RotationOncePerPath ==
    /\ \A j \in Idx :
          (calls[j].op = "Write" /\ calls[j].info = "rotate") =>
              /\ Cardinality(RotationWrites(calls[j].path)) = 1
              /\ calls[j].ok => calls[j].path \in rotateCache
    /\ \A j \in Idx :
          (calls[j].op = "Skip" /\ calls[j].info = "rotated previously") =>
              /\ CastToBool(ItemOf(calls[j]), "rotate")
              /\ \E i \in 1..(j - 1) : i \in RotationWrites(calls[j].path) /\ calls[i].ok
              /\ Cardinality(RotationWrites(calls[j].path)) = 1

\* C8 witness: two items with rotate and the same rotation path have been
\* processed: the first made the write, the second found the path cached.
C8_Witness ==
    \E i, j \in Idx :
        /\ i < j
        /\ calls[i].op = "Write" /\ calls[i].info = "rotate" /\ calls[i].ok
        /\ calls[j].op = "Skip" /\ calls[j].info = "rotated previously"
        /\ calls[j].path = calls[i].path
        /\ calls[j].eng # calls[i].eng

\* The paths the pass has called Unmount for.
UnmountedPaths == {calls[j].path : j \in {i \in Idx : calls[i].op = "Unmount"}}

\* ExistingMounts - DesiredPaths - {sys, identity, cubbyhole}, the existing
\* mounts being those of the server when the pass started.
ExpectedUnmanaged ==
    ({Trim(k) : k \in mounts0} \ DesiredPaths) \ {S("sys"), S("identity"), S("cubbyhole")}

PurgeOn == purge.Enabled /\ ~purge.ExcludeSecrets

\* C9: a pass that returns without error has called Unmount once for each
\* path of ExpectedUnmanaged and for no other when purge is enabled and the
\* secrets are not excluded, and has made no Unmount call otherwise.
C9_PruneExactly ==
    Returned("ok") =>
        /\ UnmountedPaths = (IF PurgeOn THEN ExpectedUnmanaged ELSE {})
        /\ Cardinality({i \in Idx : calls[i].op = "Unmount"}) = Cardinality(UnmountedPaths)

\* C10: no Unmount call is made for sys, identity or cubbyhole, nor for the
\* normalized path of a desired resource, mounted before the pass or by it.
C10_NeverUnmountReservedOrDesired ==
    \A j \in Idx :
        calls[j].op = "Unmount" =>
            /\ calls[j].path \notin {S("sys"), S("identity"), S("cubbyhole")}
            /\ calls[j].path \notin DesiredPaths
            /\ MountKey(calls[j].path) \notin SystemMounts

\* C10 witness: a pass has mounted a desired resource and then unmounted an
\* unmanaged path, the reserved paths and a desired path being mounted.
C10_Witness ==
    /\ \E i, j \in Idx :
          /\ i < j
          /\ calls[i].op = "Mount" /\ calls[i].ok
          /\ calls[j].op = "Unmount" /\ calls[j].ok
    /\ SystemMounts \subseteq mounts
    /\ \E e \in DOMAIN secrets : Listed(NormalizePath(secrets[e]), mounts0)

(***************************************************************************)
(* Errors of a pass.                                                       *)
(***************************************************************************)
\* The remote calls that change the server.
Mutating == {"Mount", "TuneMount", "Write", "Unmount"}

\* C11: a listing call that fails (ListAuth, or ListMounts for the drift
\* classification or for a mount-existence check) makes the pass return an
\* error at once, and no mutating call was made in the pass before it.
C11_ListingFailureBeforeMutation ==
    \A j \in Idx :
        (calls[j].op \in {"ListAuth", "ListMounts"} /\ ~calls[j].ok) =>
            /\ j = Len(calls)
            /\ Returned("ListAuth") \/ Returned("ListMounts")
            /\ \A i \in 1..(j - 1) : calls[i].op \notin Mutating

(***************************************************************************)
(* The items of a pass.                                                    *)
(***************************************************************************)
\* C12: the data of every write to the target path of an item holds none of
\* the keys create_only, rotate and save_to, whatever the item declared and
\* whether it decoded into the templated form or not.
C12_ControlKeysNotWritten ==
    \A j \in Idx :
        ConfigWrite(calls[j]) => DOMAIN calls[j].data \cap ControlKeys = {}

\* C12 witness: a pass has written an item that decodes into the templated
\* form and an item that does not, each declared with some of the three keys,
\* and the data written holds the other keys of the item.
C12_Witness ==
    \E i, j \in Idx :
        /\ ConfigWrite(calls[i]) /\ ConfigWrite(calls[j])
        /\ DecodesTemplated(ItemOf(calls[i])) /\ ~DecodesTemplated(ItemOf(calls[j]))
        /\ DOMAIN ItemOf(calls[i]) \cap ControlKeys # {}
        /\ DOMAIN ItemOf(calls[j]) \cap ControlKeys # {}
        /\ "name" \in DOMAIN calls[i].data /\ "allowed_domains" \in DOMAIN calls[j].data

\* Calls i and j are made for the same item.
SameItem(i, j) ==
    /\ calls[i].eng = calls[j].eng
    /\ calls[i].opt = calls[j].opt
    /\ calls[i].item = calls[j].item

\* Call j is an existence check that reported the target as existing: a Read
\* that returned data, or for root/generate the CA check that returned 200.
ProbeFound(j) ==
    /\ calls[j].op \in {"Read", "GetCA"}
    /\ calls[j].op = "GetCA" <=> calls[j].opt = RootGenerate
    /\ calls[j].ok
    /\ calls[j].info = "exists"

\* C13: when the existence check of an item with create_only or rotate under
\* a mount that existed reports the target as existing, the pass makes no
\* write to the target path of the item and records the skip with the reason
\* create_only when create_only is set and rotate otherwise.
C13_ExistingTargetSkipped ==
    \A j \in Idx :
        ProbeFound(j) =>
            /\ \A i \in Idx :
                  ~(/\ calls[i].op = "Write"
                    /\ SameItem(i, j)
                    /\ \/ calls[i].info = "config"
                       \/ calls[i].path = ItemPath(secrets[calls[j].eng], calls[j].opt,
                                                   calls[j].item))
            /\ j < Len(calls)
            /\ calls[j + 1].op = "Skip"
            /\ SameItem(j + 1, j)
            /\ calls[j + 1].info = (IF CastToBool(ItemOf(calls[j]), "create_only")
                                    THEN "create_only" ELSE "rotate")

\* C13 witness: a pass has returned without error after the CA check found
\* the CA of a create_only root/generate item and a Read found the target of
\* an item with rotate and without create_only, both skipped.
C13_Witness ==
    /\ Returned("ok")
    /\ \E j \in Idx :
          /\ ProbeFound(j) /\ calls[j].op = "GetCA"
          /\ calls[j + 1].op = "Skip" /\ calls[j + 1].info = "create_only"
    /\ \E j \in Idx :
          /\ ProbeFound(j) /\ calls[j].op = "Read"
          /\ ~CastToBool(ItemOf(calls[j]), "create_only")
          /\ calls[j + 1].op = "Skip" /\ calls[j + 1].info = "rotate"

\* C14: a write of an item that fails with the overwrite-prohibited conflict
\* does not end the pass: the pass makes no further call for the item, goes
\* on with the next item and can return without error.  A write of an item
\* that fails with any other error is the last call of the pass, which
\* returns the write error.
C14_ConflictContinues ==
    \A j \in Idx :
        (ConfigWrite(calls[j]) /\ ~calls[j].ok) =>
            IF calls[j].err = OverwriteProhibited
            THEN /\ j < Len(calls) => ~SameItem(j + 1, j)
                 /\ (j = Len(calls) /\ pc = "idle") => Returned("ok")
            ELSE /\ j = Len(calls)
                 /\ Returned("Write")

\* C14 witness: a pass has returned without error in which the write of an
\* item hit the conflict and the write of a later item succeeded.
C14_Witness ==
    /\ Returned("ok")
    /\ \E i, j \in Idx :
          /\ i < j
          /\ ConfigWrite(calls[i]) /\ calls[i].err = OverwriteProhibited
          /\ ConfigWrite(calls[j]) /\ calls[j].ok

\* The order in which the desired state declares the config options of a
\* resource.
DeclaredOptions ==
    <<ConfigRoot, S("roles"), S("config"), RootGenerate, S("cache-config"), S("keys")>>

DeclaredAt(opt) == CHOOSE n \in DOMAIN DeclaredOptions : DeclaredOptions[n] = opt

\* The indexes of the calls made for an item.
ItemCalls == {j \in Idx : calls[j].item > 0}

\* C15: the calls of a pass follow the declaration: the resources in the
\* order supplied, the config options of a resource in their declared order
\* (every call for an item of an option declared earlier precedes every call
\* for an item of an option declared later) and the items of an option in
\* sequence order.
C15_DeclaredOrder ==
    /\ \A i, j \in Idx :
          (i < j /\ calls[i].eng > 0 /\ calls[j].eng > 0) => calls[i].eng <= calls[j].eng
    /\ \A i, j \in ItemCalls :
          (i < j /\ calls[i].eng = calls[j].eng) =>
              /\ DeclaredAt(calls[i].opt) <= DeclaredAt(calls[j].opt)
              /\ calls[i].opt = calls[j].opt => calls[i].item <= calls[j].item

(***************************************************************************)
(* Accessor templates.                                                     *)
(***************************************************************************)
\* The token of auth mount k occurs in s: at some position s holds the token,
\* and not the longer token of an auth mount whose path begins with k's.
TokenOccurs(s, k) ==
    \E p \in 1..Len(s) :
        LET rest == SubSeq(s, p, Len(s))
        IN  /\ HasPrefix(rest, AccessorToken(k))
            /\ \A k2 \in DOMAIN AuthMounts :
                  (Len(AccessorToken(k2)) > Len(AccessorToken(k)))
                      => ~HasPrefix(rest, AccessorToken(k2))

\* C16: in every allowed_domains string an item is written with, the token
\* of every auth mount that occurred in the declared string is replaced by
\* the accessor of that mount, and no token of an auth mount is left, also
\* when the string holds the tokens of several auth mounts and when the path
\* of one auth mount is a prefix of another's.
C16_EveryTokenReplaced ==
    \A j \in Idx :
        (/\ ConfigWrite(calls[j])
         /\ "allowed_domains" \in DOMAIN ItemOf(calls[j])
         /\ DecodesTemplated(ItemOf(calls[j]))) =>
            LET declared == ItemOf(calls[j]).allowed_domains.list
                sent == calls[j].data.allowed_domains.list
            IN  /\ Len(sent) = Len(declared)
                /\ \A n \in DOMAIN declared :
                   \A k \in DOMAIN AuthMounts :
                      /\ ~Contains(sent[n], AccessorToken(k))
                      /\ TokenOccurs(declared[n], k) => Contains(sent[n], AuthMounts[k])

\* The listing taken when resource e was processed had its path.
PreExisted(e) ==
    \E l \in Idx :
        /\ calls[l].op = "ListMounts" /\ calls[l].eng = e /\ calls[l].ok
        /\ Listed(calls[l].path, calls[l].listing)

\* The pass has mounted resource e.
Created(e) == \E m \in Idx : calls[m].op = "Mount" /\ calls[m].eng = e /\ calls[m].ok

\* C17: an existence check (Read of the target, or the CA check) is made for
\* an item only if the item has create_only or rotate and the mount of its
\* resource existed when the resource was processed.  For a mount created in
\* this pass no existence check is made and nothing is skipped: the first
\* call for each item is its write, and a pass that returns without error
\* has written every item of the resource.
C17_ProbeOnlyForExistingMount ==
    /\ \A j \in Idx :
          calls[j].op \in {"Read", "GetCA"} =>
              /\ Flagged(ItemOf(calls[j]))
              /\ PreExisted(calls[j].eng)
              /\ ~Created(calls[j].eng)
    /\ \A j \in ItemCalls :
          Created(calls[j].eng) =>
              /\ calls[j].op \notin {"Read", "GetCA", "Skip"}
              /\ (\A i \in 1..(j - 1) : ~SameItem(i, j)) =>
                    ConfigWrite(calls[j]) \/ calls[j].op = "NameError"
    /\ Returned("ok") =>
          \A e \in DOMAIN secrets :
              Created(e) =>
                  \A opt \in DOMAIN secrets[e].Configuration :
                  \A k \in 1..Len(secrets[e].Configuration[opt]) :
                      \E j \in Idx :
                          /\ ConfigWrite(calls[j]) /\ calls[j].eng = e
                          /\ calls[j].opt = opt /\ calls[j].item = k

\* C17 witness: a pass has returned without error after mounting a resource
\* and writing its create_only item without an existence check, and after an
\* existence check for an item of a resource whose mount existed.
C17_Witness ==
    /\ Returned("ok")
    /\ \E j \in Idx :
          /\ ConfigWrite(calls[j]) /\ calls[j].ok
          /\ Created(calls[j].eng)
          /\ CastToBool(ItemOf(calls[j]), "create_only")
    /\ \E j \in Idx : calls[j].op \in {"Read", "GetCA"} /\ PreExisted(calls[j].eng)

\* The call is a write to the save_to path of an item.
SaveWrite(c) == c.op = "Write" /\ c.info = "save_to"

\* C18: a write to the save_to path of an item is made if and only if
\* save_to is not empty and the write to the target path of the item
\* succeeded in this pass: the save_to write follows that write at once, and
\* none is made for an item whose write was skipped, hit the conflict or
\* failed.
C18_SaveToIffWritten ==
    /\ \A j \in Idx :
          SaveWrite(calls[j]) =>
              /\ CastToString(ItemOf(calls[j]), "save_to") # <<>>
              /\ calls[j].path = CastToString(ItemOf(calls[j]), "save_to")
              /\ j > 1
              /\ ConfigWrite(calls[j - 1]) /\ calls[j - 1].ok /\ SameItem(j - 1, j)
    /\ \A j \in Idx :
          (/\ ConfigWrite(calls[j]) /\ calls[j].ok
           /\ CastToString(ItemOf(calls[j]), "save_to") # <<>>) =>
              /\ j < Len(calls)
              /\ SaveWrite(calls[j + 1]) /\ SameItem(j + 1, j)

\* C18 witness: a pass has returned without error in which the write of an
\* item with save_to hit the conflict and was followed by no save_to write,
\* the existing target of another item with save_to was skipped, and the
\* write of a third succeeded and was followed by its save_to write.
C18_Witness ==
    /\ Returned("ok")
    /\ \E j \in Idx :
          /\ ConfigWrite(calls[j]) /\ calls[j].err = OverwriteProhibited
          /\ CastToString(ItemOf(calls[j]), "save_to") # <<>>
    /\ \E j \in Idx :
          /\ calls[j].op = "Skip" /\ calls[j].info \in {"create_only", "rotate"}
          /\ CastToString(ItemOf(calls[j]), "save_to") # <<>>
    /\ \E j \in Idx : SaveWrite(calls[j]) /\ calls[j].ok

\* The errors addManagedSecretsEngines returns.
AddManagedErrors ==
    {"ListMounts", "Mount", "TuneMount", "name", "probe", "Write", "save_to",
     "unsupported", "rotate"}

\* Call j failed in addManagedSecretsEngines and is neither retried after a
\* sleep nor the conflict that is passed over.
FatalFailure(j) ==
    /\ ~calls[j].ok
    /\ calls[j].eng > 0
    /\ calls[j].err # OverwriteProhibited
    /\ ~(j < Len(calls) /\ calls[j + 1].op = "Sleep")

\* C19: a fatal error of addManagedSecretsEngines is what the pass returns,
\* and the failed call is the last of the pass: no call is made for a later
\* resource, no Unmount is made whatever the purge setting, and what the pass
\* mounted and wrote before stays on the server.
C19_FatalErrorEndsPass ==
    /\ \A j \in Idx :
          FatalFailure(j) =>
              /\ j = Len(calls)
              /\ pc = "idle"
              /\ results[Len(results)] \in AddManagedErrors
              /\ \A i \in Idx : calls[i].eng <= calls[j].eng
    /\ (pc = "idle" /\ passNo > 0 /\ results[Len(results)] \in AddManagedErrors) =>
          /\ \A i \in Idx : calls[i].op # "Unmount"
          /\ mounts0 \subseteq mounts
          /\ \A i \in Idx :
                (calls[i].op = "Mount" /\ calls[i].ok) => MountKey(calls[i].path) \in mounts
          /\ \A i \in Idx :
                (calls[i].op = "Write" /\ calls[i].ok /\ calls[i].info # "rotate")
                    => calls[i].path \in data

\* C19 witness: with purge enabled and an unmanaged path mounted, a pass has
\* returned the error of a write after it mounted the first of two resources
\* and wrote an item of it; the unmanaged path is still mounted.
C19_Witness ==
    /\ Returned("Write")
    /\ PurgeOn
    /\ OldMount \in mounts0 /\ OldMount \in mounts
    /\ Len(secrets) = 2
    /\ calls[Len(calls)].eng = 1
    /\ \E i \in Idx : calls[i].op = "Mount" /\ calls[i].ok
    /\ \E i \in Idx : ConfigWrite(calls[i]) /\ calls[i].ok /\ calls[i].path \in data

\* The (engine type, config option) pairs whose items need no name.
ExemptPairs ==
    {<<S(t), S("config")>> : t \in {"ad", "alicloud", "azure", "gcp", "gcpkms", "kv"}}
        \cup {<<S("aws"), Join(S("config"), S("root"))>>,
              <<S("transit"), S("cache-config")>>}

\* Engine types and config options the exemption is decided for.
EngineTypes ==
    {S(t) : t \in {"ad", "alicloud", "azure", "gcp", "gcpkms", "kv", "aws", "transit",
                   "database", "pki", "ssh"}}

ConfigOptions ==
    {S("config"), Join(S("config"), S("root")), S("cache-config"), S("roles"),
     S("keys"), Join(S("root"), S("generate"))}

\* The item of call c has no name key and its pair is not exempt.
NameMissing(c) ==
    /\ "name" \notin DOMAIN ItemOf(c)
    /\ <<secrets[c.eng].Type, c.opt>> \notin ExemptPairs

\* mountPath/configOption/name when the item of call c has a name, else
\* mountPath/configOption.
TargetPath(c) ==
    IF "name" \in DOMAIN ItemOf(c)
    THEN secrets[c.eng].Path \o <<"/">> \o c.opt \o <<"/">> \o ItemOf(c).name
    ELSE secrets[c.eng].Path \o <<"/">> \o c.opt

\* C20: an item without a name key whose (engine type, config option) pair is
\* not exempt makes the pass return an error with no probe, write or rotation
\* for that item or for a later one; for every other item the target path
\* read and written is mountPath/configOption/name when the item has a name
\* and mountPath/configOption when it has none.  The exempt pairs are config
\* with a type in {ad, alicloud, azure, gcp, gcpkms, kv}, aws with
\* config/root and transit with cache-config, and no other.
C20_NameRequired ==
    /\ \A j \in Idx :
          calls[j].op = "NameError" =>
              /\ NameMissing(calls[j])
              /\ j = Len(calls)
              /\ Returned("name")
              /\ \A i \in Idx : i # j => ~SameItem(i, j)
    /\ \A j \in ItemCalls :
          calls[j].op # "NameError" =>
              /\ ~NameMissing(calls[j])
              /\ (ConfigWrite(calls[j]) \/ calls[j].op = "Read"
                    \/ (calls[j].op = "Skip" /\ calls[j].info \in {"create_only", "rotate"}))
                 => calls[j].path = TargetPath(calls[j])
    /\ \A t \in EngineTypes, o \in ConfigOptions :
          configNeedsNoName(t, o) <=> <<t, o>> \in ExemptPairs

\* C20 witness: a pass has written an item without a name of an exempt pair
\* to mountPath/configOption and an item with a name to
\* mountPath/configOption/name, and has then returned the error of an item
\* without a name of a pair that is not exempt.
C20_Witness ==
    /\ Returned("name")
    /\ calls[Len(calls)].op = "NameError"
    /\ \E j \in Idx :
          /\ ConfigWrite(calls[j]) /\ calls[j].ok
          /\ "name" \notin DOMAIN ItemOf(calls[j])
          /\ calls[j].path = secrets[calls[j].eng].Path \o <<"/">> \o calls[j].opt
    /\ \E j \in Idx :
          /\ ConfigWrite(calls[j]) /\ calls[j].ok
          /\ "name" \in DOMAIN ItemOf(calls[j])

(***************************************************************************)
(* Termination.                                                            *)
(***************************************************************************)
\* C21: a pass terminates even when the server fails every Mount and every
\* TuneMount call: at every attempt of a retry loop the server may still fail
\* the call, and yet every pass that has started returns.
C21_PassTerminates ==
    /\ [](pc \in {"mount", "tune"} => failed < faulty.max)
    /\ (pc # "idle") ~> (pc = "idle")

\* C21 witness: a pass has returned the mount error after every Mount call
\* it made failed, the server being allowed to fail still more calls.
C21_Witness ==
    /\ Returned("Mount")
    /\ failed < faulty.max
    /\ \A j \in Idx : calls[j].op = "Mount" => ~calls[j].ok
    /\ \A j \in Idx : calls[j].op # "TuneMount"

(***************************************************************************)
(* Normalization of the desired state.                                     *)
(***************************************************************************)
\* C22: initSecretsEnginesConfig is idempotent: once a pass has normalized
\* the desired state in place, normalizing it again changes no path, so the
\* next pass targets the same paths.
C22_NormalizeIdempotent ==
    passNo >= 1 => initSecretsEnginesConfig(secrets) = secrets

(***************************************************************************)
(* Rotation of root credentials.                                           *)
(***************************************************************************)
\* Call j invokes the rotation: it is the rotation write, or the rotation
\* found in the cache.
RotationInvoked(j) ==
    \/ calls[j].op = "Write" /\ calls[j].info = "rotate"
    \/ calls[j].op = "Skip" /\ calls[j].info = "rotated previously"

\* The config write of the item of call j ended in the conflict.
Conflicted(j) ==
    \E i \in 1..(j - 1) :
        SameItem(i, j) /\ ConfigWrite(calls[i]) /\ calls[i].err = OverwriteProhibited

\* The rotation endpoint of a gcp engine: path/name/rotate.
GcpRotateEndpoint(c) ==
    /\ secrets[c.eng].Type = S("gcp")
    /\ c.path # <<>>
    /\ c.path[Len(c.path)] = "rotate"

\* C23: the rotation is invoked only for an item with rotate, under a mount
\* that existed when its resource was processed, of a database config or an
\* aws config/root, and never for an item whose write ended in the conflict;
\* no pass returns the unsupported-rotation error and no call is made to the
\* rotation endpoint of a gcp engine.
C23_RotationOnlyForRootCredentials ==
    /\ \A j \in Idx :
          RotationInvoked(j) =>
              /\ CastToBool(ItemOf(calls[j]), "rotate")
              /\ PreExisted(calls[j].eng)
              /\ <<secrets[calls[j].eng].Type, calls[j].opt>>
                    \in {<<S("database"), S("config")>>, <<S("aws"), ConfigRoot>>}
              /\ ~Conflicted(j)
    /\ \A j \in Idx : calls[j].eng > 0 => ~GcpRotateEndpoint(calls[j])
    /\ \A n \in DOMAIN results : results[n] # "unsupported"

\* C23 witness: a pass has returned without error in which the rotate items
\* of a gcp engine whose mount existed were written and not rotated, the
\* write of the rotate item of a database config hit the conflict and was
\* not followed by a rotation, and the credentials of an aws config/root
\* were rotated.
C23_Witness ==
    /\ Returned("ok")
    /\ \E j \in Idx :
          /\ ConfigWrite(calls[j]) /\ calls[j].ok
          /\ secrets[calls[j].eng].Type = S("gcp") /\ calls[j].opt = S("roleset")
          /\ CastToBool(ItemOf(calls[j]), "rotate")
          /\ PreExisted(calls[j].eng)
    /\ \E j \in Idx :
          /\ ConfigWrite(calls[j]) /\ calls[j].err = OverwriteProhibited
          /\ CastToBool(ItemOf(calls[j]), "rotate")
          /\ secrets[calls[j].eng].Type = S("database")
          /\ PreExisted(calls[j].eng)
    /\ \E j \in Idx :
          /\ calls[j].op = "Write" /\ calls[j].info = "rotate" /\ calls[j].ok
          /\ secrets[calls[j].eng].Type = S("aws")

(***************************************************************************)
(* The keys of the data written for an item.                               *)
(***************************************************************************)
\* C24: the data written to the target path of an item has exactly the keys
\* the item declared less create_only, rotate and save_to: no key is added
\* and no other key is dropped.
C24_WrittenKeysAsDeclared ==
    \A j \in Idx :
        ConfigWrite(calls[j]) => DOMAIN calls[j].data = DOMAIN ItemOf(calls[j]) \ ControlKeys

====
